---- MODULE Spec2Model ----
(***************************************************************************)
(* The TNS (Transient Name Server) integration of skyportal:               *)
(* skyportal/handlers/api/tns.py and skyportal/models/tns.py.              *)
(*                                                                         *)
(* The model holds the committed database (objects, photometry, the TNS    *)
(* robot), the thread-local registry of the module-level scoped_session    *)
(* `Session` with the uncommitted changes each session holds, the queue of *)
(* the executor the handlers submit detached tasks to, and what each       *)
(* worker thread of that executor is running.                              *)
(***************************************************************************)
EXTENDS Integers, Sequences, FiniteSets, TLC

(***************************************************************************)
(* Bounds of the model.                                                    *)
(***************************************************************************)
\* detached tasks accepted onto the executor in one behaviour
MaxTasks == 2
\* the longest run of consecutive HTTP 429 answers TNS gives to one caller
MaxRateLimited == 6

\* worker threads of the executor
Threads == {1, 2}
\* object identifiers, local and on TNS
ObjIds == {"a", "b"}
\* names TNS assigns
Names == {"2024abc"}

(***************************************************************************)
(* Values.                                                                 *)
(***************************************************************************)
\* Python's None for an object's tns_name / tns_info
NoName == "none"
NoInfo == "none"
\* an attribute the session holds no uncommitted change for
Unset == "unset"

\* what a robot's decrypted altdata can be: `_altdata` NULL (the getter
\* returns {}), an empty mapping, a mapping without api_key, one with it
AltKinds == {"unset", "empty", "nokey", "key"}

\* TNSRobot.altdata getter followed by `not altdata`
AltdataFalsy(alt) == alt \in {"unset", "empty"}

\* 'api_key' in altdata
HasApiKey(alt) == alt = "key"

(***************************************************************************)
(* TNS replies to the object-fetch call: r.json()["data"]["reply"].        *)
(* A photometry record is translatable (ok) or malformed; a spectrum       *)
(* record is translatable and insertable ("ok"), malformed ("bad"), or     *)
(* translatable but refused by post_spectrum ("reject").                   *)
(***************************************************************************)
ReplyIds == {"empty", "r1", "r3"}

ReplyOf(id) ==
    CASE id = "r1" ->
           [empty |-> FALSE, hasPhot |-> TRUE,
            phot |-> << [id |-> "p1", ok |-> TRUE],
                        [id |-> "p2", ok |-> FALSE],
                        [id |-> "p3", ok |-> TRUE] >>,
            hasSpec |-> TRUE,
            spec |-> << [id |-> "s1", kind |-> "ok"],
                        [id |-> "s2", kind |-> "bad"] >>]
      [] id = "r3" ->
           [empty |-> FALSE, hasPhot |-> FALSE, phot |-> << >>,
            hasSpec |-> TRUE,
            spec |-> << [id |-> "s3", kind |-> "reject"] >>]
      [] OTHER ->
           [empty |-> TRUE, hasPhot |-> FALSE, phot |-> << >>,
            hasSpec |-> FALSE, spec |-> << >>]

(***************************************************************************)
(* State.                                                                  *)
(***************************************************************************)
VARIABLES
    db,         \* committed Obj rows: ObjIds -> [exists, tns_name, tns_info, spectra]
    photometry, \* committed photometry rows per object (add_external_photometry)
    robot,      \* the TNSRobot row
    sess,       \* per worker thread: the scoped session of that thread
    queue,      \* tasks submitted with run_in_executor, not yet started
    run,        \* per worker thread: the task it runs, or ran last
    accepted,   \* number of tasks submitted so far
    out         \* the last thing the program said: the response of a request
                \* handler to its caller, or what a task step did and logged

vars == << db, photometry, robot, sess, queue, run, accepted, out >>

(***************************************************************************)
(* The scoped session of a worker thread.  `registered` is                 *)
(* Session.registry.has() on that thread; `open` holds from the moment the *)
(* session is obtained or used until session.close(); `pending` are the    *)
(* attribute changes the session holds and has not committed; `stale`      *)
(* names, of a pending row, the attributes whose change was made by a task *)
(* that has finished.                                                      *)
(***************************************************************************)
NoPending ==
    [created |-> FALSE, name |-> Unset, info |-> Unset, spectra |-> {},
     stale |-> {}]

NoSession ==
    [registered |-> FALSE, open |-> FALSE,
     pending |-> [o \in ObjIds |-> NoPending]]

\* the attributes a pending row changes
DirtyAttrs(p) ==
    (IF p.created THEN {"created"} ELSE {})
    \cup (IF p.name # Unset THEN {"tns_name"} ELSE {})
    \cup (IF p.info # Unset THEN {"tns_info"} ELSE {})
    \cup (IF p.spectra # {} THEN {"spectra"} ELSE {})

Dirty(p) == DirtyAttrs(p) # {}

\* Session() when the registry has one, else Session(bind=...), which
\* creates the thread's session and registers it
AcquireSession(s) ==
    IF s.registered
    THEN [s EXCEPT !.open = TRUE]
    ELSE [NoSession EXCEPT !.registered = TRUE, !.open = TRUE]

\* session.close(): the transaction in progress is rolled back, the
\* session's objects are expunged
CloseSession(s) ==
    [s EXCEPT !.open = FALSE, !.pending = [o \in ObjIds |-> NoPending]]

\* Session.remove(): closes the registry's session and clears the registry
RemoveSession(s) ==
    [CloseSession(s) EXCEPT !.registered = FALSE]

\* the row of object o as a query on session s sees it
View(d, s, o) ==
    LET p == s.pending[o] IN
    [exists   |-> d[o].exists \/ p.created,
     tns_name |-> IF p.name # Unset THEN p.name ELSE d[o].tns_name,
     tns_info |-> IF p.info # Unset THEN p.info ELSE d[o].tns_info,
     spectra  |-> d[o].spectra \cup p.spectra]

\* session.commit(): every pending change of the session is written
CommitDb(d, s) ==
    [o \in ObjIds |-> IF Dirty(s.pending[o]) THEN View(d, s, o) ELSE d[o]]

AfterCommit(s) ==
    [s EXCEPT !.open = TRUE, !.pending = [o \in ObjIds |-> NoPending]]

\* the objects whose rows a commit of s writes
CommitSet(s) == {o \in ObjIds : Dirty(s.pending[o])}

\* the commit of s writes changes that a finished task left behind
CommitLeaks(s) == \E o \in ObjIds : s.pending[o].stale # {}

\* obj.tns_name = tns_name
SetName(s, o, n) ==
    [s EXCEPT !.open = TRUE, !.pending[o].name = n,
              !.pending[o].stale = @ \ {"tns_name"}]

\* obj.tns_info = source_data
SetInfo(s, o, i) ==
    [s EXCEPT !.open = TRUE, !.pending[o].info = i,
              !.pending[o].stale = @ \ {"tns_info"}]

\* the task that used s has returned: what it left uncommitted is stale
MarkStale(s) ==
    [s EXCEPT !.pending =
        [o \in ObjIds |->
            [s.pending[o] EXCEPT !.stale = DirtyAttrs(s.pending[o])]]]

(***************************************************************************)
(* tns_retrieval: the object-fetch call and its rate-limit loop.           *)
(* TNS answers 429 to the first k requests of a call and f to the next;    *)
(* f = 0 stands for a request that raises (timeout, connection refused).   *)
(***************************************************************************)
count_limit == 5

Answer(k, f, i) == IF i <= k THEN 429 ELSE f

\* a loop that goes on while count has not passed the limit
RetryCondInclusive(r, count) == r = 429 /\ count <= count_limit

\* a loop that goes on for as long as TNS answers 429
RetryCondUnlimited(r, count) == r = 429

\* `while r.status_code == 429 and count < count_limit`
RetryCond(r, count) == r = 429 /\ count < count_limit

\* got: the status of every request made so far, the last being r
RECURSIVE RetryLoop(_, _, _, _)
RetryLoop(k, f, count, got) ==
    IF RetryCond(got[Len(got)], count)
    THEN LET r == Answer(k, f, Len(got) + 1) IN
         IF r = 0
         THEN [got |-> Append(got, r), count |-> count]
         ELSE RetryLoop(k, f, count + 1, Append(got, r))
    ELSE [got |-> got, count |-> count]

\* requests.post(object_url, ...) followed by the loop
FetchObject(k, f) == RetryLoop(k, f, 0, << Answer(k, f, 1) >>)

\* `if count == count_limit: raise ValueError('... request rate exceeded.')`
RateExceeded(fl) == fl.count = count_limit

(***************************************************************************)
(* tns_retrieval: the records of a reply.                                  *)
(***************************************************************************)
\* a photometry loop that a malformed record ends
PhotInsertedUntilFailure(recs) ==
    {recs[i].id : i \in {j \in 1..Len(recs) : \A k \in 1..j : recs[k].ok}}

\* the photometry loop: the records add_external_photometry received
PhotInserted(recs) == {recs[i].id : i \in {j \in 1..Len(recs) : recs[j].ok}}

\* the photometry loop: len(failed_photometry)
PhotFailed(recs) == Cardinality({j \in 1..Len(recs) : ~recs[j].ok})

\* the spectra loop: read_tns_spectrum raising skips the record;
\* post_spectrum raising leaves the loop and the try block.  `failed` is
\* failed_spectra: the list of line 546, to which the loop appends nothing
RECURSIVE SpectraLoop(_, _)
SpectraLoop(recs, acc) ==
    IF recs = << >>
    THEN [inserted |-> acc, raised |-> FALSE, failed |-> << >>]
    ELSE IF Head(recs).kind = "bad"
         THEN SpectraLoop(Tail(recs), acc)
         ELSE IF Head(recs).kind = "reject"
              THEN [inserted |-> acc, raised |-> TRUE, failed |-> << >>]
              ELSE SpectraLoop(Tail(recs), acc \cup {Head(recs).id})

AddSpectra(s, o, ids) ==
    IF ids = {} THEN s
    ELSE [s EXCEPT !.open = TRUE, !.pending[o].spectra = @ \cup ids]

(***************************************************************************)
(* tns_retrieval(obj_id, tnsrobot_id, user_id, include_photometry,         *)
(* include_spectra, parent_session) as one function of the state it reads  *)
(* and of what the outside answers:                                        *)
(*   in.userErr  the query for the caller (line 440) raises                *)
(*   in.name     what get_IAUname returns as the name, NoName for None     *)
(*   in.k, in.f  the answers of TNS to the object-fetch requests           *)
(*   in.reply    the reply payload of a 200 answer                         *)
(* The result holds the database, the photometry rows and the session      *)
(* after the call, and `res`, what the call did.                           *)
(***************************************************************************)
\* obj: the object of the call; calls: the TNS calls made, in order;
\* got: the status of every object-fetch request made, in order
\* photFailed, specFailed: the counts of the two 'Failed to retrieve n/m'
\* summaries, 0 when the summary is not logged;
\* report: the classification report sent to TNS; spectrumType: the
\* spectrumType of the request of a spectrum push; name: what get_IAUname
\* answered to a spectrum push
NoReport == [sent |-> FALSE, spectypeid |-> 0, redshift |-> FALSE]

NoResult ==
    [outcome |-> "none", raised |-> FALSE, obj |-> "-", calls |-> << >>,
     got |-> << >>, reply |-> Unset, pushed |-> FALSE, committed |-> {},
     leak |-> FALSE, photFailed |-> 0, specFailed |-> 0,
     report |-> NoReport, spectrumType |-> "-", name |-> Unset]

\* get_IAUname, then one call of the object endpoint per request
RetrievalCalls(got) ==
    << "get_IAUname" >> \o [i \in 1..Len(got) |-> "object"]

\* the `except Exception` branch: the failure is logged
Failed(d, ph, s, outcome, calls, got) ==
    [db |-> d, photometry |-> ph, s |-> s,
     res |-> [NoResult EXCEPT !.outcome = outcome, !.calls = calls,
                              !.got = got]]

\* lines 567-573: session.commit() and the REFRESH_SOURCE notification
CommitAndPush(d, ph, s, outcome, got, reply, nfail, sfail) ==
    [db |-> CommitDb(d, s), photometry |-> ph, s |-> AfterCommit(s),
     res |-> [NoResult EXCEPT !.outcome = outcome,
                              !.calls = RetrievalCalls(got), !.got = got,
                              !.reply = reply, !.pushed = TRUE,
                              !.committed = CommitSet(s),
                              !.leak = CommitLeaks(s),
                              !.photFailed = nfail,
                              !.specFailed = sfail]]

\* lines 511-564: a 200 answer
ProcessReply(d, ph, s, p, in, got) ==
    LET rep == ReplyOf(in.reply)
        s2 == IF rep.empty THEN s ELSE SetInfo(s, p.obj, in.reply)
        doPhot == ~rep.empty /\ p.incPhot /\ rep.hasPhot
        doSpec == ~rep.empty /\ p.incSpec /\ rep.hasSpec
        ph2 == IF doPhot
               THEN [ph EXCEPT ![p.obj] = @ \cup PhotInserted(rep.phot)]
               ELSE ph
        nfail == IF doPhot THEN PhotFailed(rep.phot) ELSE 0
        sl == IF doSpec THEN SpectraLoop(rep.spec, {})
              ELSE [inserted |-> {}, raised |-> FALSE, failed |-> << >>]
        s3 == AddSpectra(s2, p.obj, sl.inserted)
    IN  IF sl.raised
        THEN [db |-> d, photometry |-> ph2, s |-> s3,
              res |-> [NoResult EXCEPT !.outcome = "spectrum_error",
                                       !.calls = RetrievalCalls(got),
                                       !.got = got, !.reply = in.reply,
                                       !.photFailed = nfail]]
        ELSE CommitAndPush(d, ph2, s3, "retrieved", got, in.reply, nfail,
                           Len(sl.failed))

\* lines 471-480: the photometry and spectra flags of the object-fetch
\* request
FetchData(p) ==
    [photometry |-> IF p.incPhot THEN "1" ELSE "0",
     spectra |-> IF p.incSpec THEN "1" ELSE "0"]

\* a call that assigns obj.tns_name and commits before it looks at the name
ResolveAndFetchEager(d, ph, s, p, in) ==
    CommitAndPush(d, ph, SetName(s, p.obj, in.name),
                  IF in.name = NoName THEN "not_posted" ELSE "fetch_failed",
                  << >>, Unset, 0, 0)

\* lines 463-573: from get_IAUname on
ResolveAndFetch(d, ph, s, p, in) ==
    IF in.name = NoName
    THEN Failed(d, ph, s, "not_posted", RetrievalCalls(<< >>), << >>)
    ELSE LET s1 == SetName(s, p.obj, in.name)
             fl == FetchObject(in.k, in.f)
             r  == fl.got[Len(fl.got)]
         IN  IF r = 0
             THEN Failed(d, ph, s1, "transport_error",
                         RetrievalCalls(fl.got), fl.got)
             ELSE IF RateExceeded(fl)
             THEN Failed(d, ph, s1, "rate_exceeded",
                         RetrievalCalls(fl.got), fl.got)
             ELSE IF r = 200
             THEN ProcessReply(d, ph, s1, p, in, fl.got)
             ELSE CommitAndPush(d, ph, s1, "fetch_failed", fl.got, Unset, 0,
                                0)

\* lines 442-576: the try block and its `except Exception`
TryBlock(d, ph, rb, s, p, in) ==
    IF ~View(d, s, p.obj).exists
    THEN Failed(d, ph, s, "no_object", << >>, << >>)
    ELSE IF ~rb.exists
    THEN Failed(d, ph, s, "no_robot", << >>, << >>)
    ELSE IF AltdataFalsy(rb.altdata)
    THEN Failed(d, ph, s, "missing_info", << >>, << >>)
    ELSE IF ~HasApiKey(rb.altdata)
    THEN Failed(d, ph, s, "missing_key", << >>, << >>)
    ELSE ResolveAndFetch(d, ph, s, p, in)

\* lines 430-436: the session the call works on
RetrievalSession(s, shared) ==
    IF shared THEN [s EXCEPT !.open = TRUE] ELSE AcquireSession(s)

\* lines 577-580: `finally: if parent_session is not None: ...`
RetrievalFinally(s, shared) ==
    IF shared THEN RemoveSession(s) ELSE s

Retrieve(d, ph, rb, s0, shared, p, in) ==
    LET s == RetrievalSession(s0, shared) IN
    IF in.userErr
    THEN [db |-> d, photometry |-> ph, s |-> s,
          res |-> [NoResult EXCEPT !.outcome = "user_error", !.raised = TRUE,
                                   !.obj = p.obj]]
    ELSE LET b == TryBlock(d, ph, rb, s, p, in)
         IN  [b EXCEPT !.s = RetrievalFinally(b.s, shared), !.res.obj = p.obj]

(***************************************************************************)
(* What the outside answers to one tns_retrieval.  Only the answers the    *)
(* call reads are varied.                                                  *)
(***************************************************************************)
RetrInput(userErr, name, k, f, reply) ==
    [userErr |-> userErr, name |-> name, k |-> k, f |-> f, reply |-> reply]

\* ks: the numbers of consecutive 429 answers TNS may give
RetrInputs(ks) ==
    {RetrInput(TRUE, NoName, 0, 200, "empty"),
     RetrInput(FALSE, NoName, 0, 200, "empty")}
    \cup {RetrInput(FALSE, n, k, f, "empty") :
            n \in Names, k \in ks, f \in {0, 500}}
    \cup {RetrInput(FALSE, n, k, 200, r) :
            n \in Names, k \in ks, r \in ReplyIds}

(***************************************************************************)
(* What the program says.  A handler answers its caller; a task logs.      *)
(***************************************************************************)
Resp(op, msg) ==
    [op |-> op, msg |-> msg, t |-> 0, res |-> NoResult, committed |-> {}]

\* a step of the task on worker thread t: its outcome so far, what the last
\* tns_retrieval it made did, the objects whose rows it has committed
TaskOut(op, msg, t, res, committed) ==
    [op |-> op, msg |-> msg, t |-> t, res |-> res, committed |-> committed]

(***************************************************************************)
(* The executor: IOLoop.current().run_in_executor(None, ...) queues a      *)
(* task; an idle worker thread takes the oldest one.                       *)
(***************************************************************************)
Task(kind, obj, incPhot, incSpec, group_ids) ==
    [kind |-> kind, obj |-> obj, incPhot |-> incPhot, incSpec |-> incSpec,
     group_ids |-> group_ids]

\* what a worker thread runs.  rest: the sources a bulk retrieval has yet
\* to go through; committed: the objects whose rows it has committed;
\* newNamed: the sources it created and get_IAUname returned a name for
IdleRun ==
    [pc |-> "idle", incPhot |-> FALSE, incSpec |-> FALSE,
     group_ids |-> << >>, rest |-> << >>, committed |-> {},
     newNamed |-> {}]

Busy(t) == run[t].pc = "loop"

CanTake(t, kind) ==
    /\ ~Busy(t)
    /\ queue # << >>
    /\ Head(queue).kind = kind

Submit(task) ==
    /\ accepted < MaxTasks
    /\ queue' = Append(queue, task)
    /\ accepted' = accepted + 1

\* a detached tns_retrieval on worker thread t (no parent session)
RunRetrieval(t, inputs) ==
    /\ CanTake(t, "retrieval")
    /\ \E in \in inputs :
         LET task == Head(queue) IN
         \E r \in {Retrieve(db, photometry, robot, sess[t], FALSE,
                             [obj |-> task.obj, incPhot |-> task.incPhot,
                              incSpec |-> task.incSpec], in)} :
             /\ db' = r.db
             /\ photometry' = r.photometry
             /\ sess' = [sess EXCEPT ![t] = MarkStale(r.s)]
             /\ out' = TaskOut("tns_retrieval", r.res.outcome, t, r.res,
                               r.res.committed)
    /\ queue' = Tail(queue)
    /\ UNCHANGED << robot, run, accepted >>

(***************************************************************************)
(* tns_bulk_retrieval(start_date, tnsrobot_id, user_id, group_ids,         *)
(* include_photometry, include_spectra) on worker thread t.                *)
(***************************************************************************)
\* what get_recent_TNS can return
SourceLists == {<< >>, << "a" >>, << "b" >>, << "a", "b" >>, << "b", "a" >>}

BulkInputs ==
    {[userErr |-> TRUE, sources |-> << >>]}
    \cup {[userErr |-> FALSE, sources |-> ss] : ss \in SourceLists}

\* lines 365-383: what the try block raises before the loop, "go" if nothing
BulkPrecheck(rb, sources) ==
    IF ~rb.exists THEN "no_robot"
    ELSE IF AltdataFalsy(rb.altdata) THEN "missing_info"
    ELSE IF ~HasApiKey(rb.altdata) THEN "missing_key"
    ELSE IF Len(sources) = 0 THEN "nothing_found"
    ELSE "go"

\* lines 404-406: `finally: session.close(); Session.remove()`
BulkFinally(s) == RemoveSession(s)

BulkOut(t, outcome, res, committed) ==
    TaskOut("tns_bulk_retrieval", outcome, t, res, committed)

\* lines 355-383: the session, the caller, the robot, the search.
\* The query for the caller is outside the try block: when it raises,
\* neither the except nor the finally branch runs.  BulkTNSHandler always
\* passes group_ids, so line 362 is not reached.
BulkBegin(t, inputs) ==
    /\ CanTake(t, "bulk")
    /\ \E in \in inputs :
         LET task == Head(queue)
             s == AcquireSession(sess[t])
             pre == BulkPrecheck(robot, in.sources)
         IN  IF in.userErr
             THEN /\ sess' = [sess EXCEPT ![t] = s]
                  /\ out' = BulkOut(t, "user_error", NoResult, {})
                  /\ UNCHANGED run
             ELSE IF pre # "go"
             THEN /\ sess' = [sess EXCEPT ![t] = BulkFinally(s)]
                  /\ out' = BulkOut(t, pre,
                                    [NoResult EXCEPT !.calls =
                                        IF pre = "nothing_found"
                                        THEN << "search" >> ELSE << >>],
                                    {})
                  /\ UNCHANGED run
             ELSE /\ sess' = [sess EXCEPT ![t] = s]
                  /\ out' = BulkOut(t, "searched",
                                    [NoResult EXCEPT !.calls = << "search" >>],
                                    {})
                  /\ run' = [run EXCEPT ![t] =
                               [pc |-> "loop", incPhot |-> task.incPhot,
                                incSpec |-> task.incSpec,
                                group_ids |-> task.group_ids,
                                rest |-> in.sources, committed |-> {},
                                newNamed |-> {}]]
    /\ queue' = Tail(queue)
    /\ UNCHANGED << db, photometry, robot, accepted >>

\* post_source(source, user_id, session): the new Obj is added to the session
PostSource(s, o) ==
    [s EXCEPT !.open = TRUE, !.pending[o].created = TRUE]

\* line 386: `s is None`
NeedsSource(d, s, o) == ~View(d, s, o).exists

\* lines 385-390 when post_source raises: the except branch, the finally
BulkSourceFails(t) ==
    /\ run[t].pc = "loop"
    /\ run[t].rest # << >>
    /\ NeedsSource(db, sess[t], Head(run[t].rest))
    /\ sess' = [sess EXCEPT ![t] = BulkFinally(sess[t])]
    /\ out' = BulkOut(t, "source_error", NoResult, run[t].committed)
    /\ run' = [run EXCEPT ![t] = IdleRun]
    /\ UNCHANGED << db, photometry, robot, queue, accepted >>

\* lines 385-399: one pass of the loop
BulkSource(t, inputs) ==
    /\ run[t].pc = "loop"
    /\ run[t].rest # << >>
    /\ \E in \in inputs :
         LET o == Head(run[t].rest)
             s1 == IF NeedsSource(db, sess[t], o)
                   THEN PostSource(sess[t], o)
                   ELSE [sess[t] EXCEPT !.open = TRUE]
         IN
         \E r \in {Retrieve(db, photometry, robot, s1, TRUE,
                             [obj |-> o, incPhot |-> run[t].incPhot,
                              incSpec |-> run[t].incSpec], in)} :
             LET done == run[t].committed \cup r.res.committed IN
             /\ db' = r.db
             /\ photometry' = r.photometry
             /\ IF r.res.raised
                THEN /\ sess' = [sess EXCEPT ![t] = BulkFinally(r.s)]
                     /\ out' = BulkOut(t, "retrieval_raised", r.res, done)
                     /\ run' = [run EXCEPT ![t] = IdleRun]
                ELSE /\ sess' = [sess EXCEPT ![t] = r.s]
                     /\ out' = BulkOut(t, "looping", r.res, done)
                     /\ run' = [run EXCEPT ![t].rest = Tail(@),
                                           ![t].committed = done,
                                           ![t].newNamed =
                                               IF /\ NeedsSource(db, sess[t], o)
                                                  /\ r.res.calls # << >>
                                                  /\ r.res.outcome # "not_posted"
                                               THEN @ \cup {o} ELSE @]
    /\ UNCHANGED << robot, queue, accepted >>

\* lines 400-406: the commit after the loop, and the finally branch
BulkEnd(t) ==
    /\ run[t].pc = "loop"
    /\ run[t].rest = << >>
    /\ \E commitOk \in BOOLEAN :
         IF commitOk
         THEN /\ db' = CommitDb(db, sess[t])
              /\ out' = BulkOut(t, "done",
                                [NoResult EXCEPT !.leak = CommitLeaks(sess[t])],
                                run[t].committed \cup CommitSet(sess[t]))
         ELSE /\ out' = BulkOut(t, "commit_error", NoResult,
                                run[t].committed)
              /\ UNCHANGED db
    /\ sess' = [sess EXCEPT ![t] = BulkFinally(sess[t])]
    /\ run' = [run EXCEPT ![t] = IdleRun]
    /\ UNCHANGED << photometry, robot, queue, accepted >>

\* post_tns(obj_ids, tnsrobot_id, user_id, reporters, archival, ...) of
\* skyportal/utils/tns.py, of which only the call is known here
RunPostTNS(t) ==
    /\ CanTake(t, "post_tns")
    /\ out' = TaskOut("post_tns", "called", t, NoResult, {})
    /\ queue' = Tail(queue)
    /\ UNCHANGED << db, photometry, robot, sess, run, accepted >>

(***************************************************************************)
(* Request values.  A string is the sequence of its characters.            *)
(***************************************************************************)
Digits == {"0", "1", "2"}

DigitVal(c) == CASE c = "0" -> 0 [] c = "1" -> 1 [] c = "2" -> 2

\* str.split(",")
RECURSIVE SplitAcc(_, _, _)
SplitAcc(str, cur, toks) ==
    IF str = << >> THEN Append(toks, cur)
    ELSE IF Head(str) = ","
         THEN SplitAcc(Tail(str), << >>, Append(toks, cur))
         ELSE SplitAcc(Tail(str), Append(cur, Head(str)), toks)

Split(str) == SplitAcc(str, << >>, << >>)

\* int(x) of a string: raises ValueError unless x is a run of digits
IsInt(tok) == tok # << >> /\ \A i \in 1..Len(tok) : tok[i] \in Digits

RECURSIVE IntAcc(_, _)
IntAcc(tok, acc) ==
    IF tok = << >> THEN acc
    ELSE IntAcc(Tail(tok), 10 * acc + DigitVal(Head(tok)))

IntOf(tok) == IntAcc(tok, 0)

\* the ids handlers are given for the robot; the robot's id is "1"
RobotArgs == {"absent", "1", "2"}

\* TNSRobot.select(...).where(TNSRobot.id == id).first() is not None
RobotFound(rb, id) == rb.exists /\ id = "1"

\* the altdata checks every handler and task makes after finding the robot
AltdataError(rb) ==
    IF AltdataFalsy(rb.altdata) THEN "Missing TNS information."
    ELSE IF ~HasApiKey(rb.altdata) THEN "Missing TNS API key."
    ELSE "none"

(***************************************************************************)
(* BulkTNSHandler.post                                                     *)
(***************************************************************************)
\* groupIds of the request body: absent, a string, a list of integers,
\* or a value of another type
GroupIdArgs ==
    {[type |-> "absent", v |-> << >>],
     [type |-> "list", v |-> << 1 >>],
     [type |-> "str", v |-> << "1", ",", "2" >>],
     [type |-> "str", v |-> << "x" >>],
     [type |-> "str", v |-> << "1", ",", "x" >>],
     [type |-> "other", v |-> << >>]}

\* startDate: absent, a date arrow parses, a string arrow does not parse
StartDateArgs == {"absent", "valid", "invalid"}

\* includePhotometry, includeSpectra of the request body
BulkIncludeArgs == {<< FALSE, FALSE >>, << TRUE, TRUE >>}

\* lines 627-660: "accept", an error message, or the exception the handler
\* raises
BulkPostCheck(rb, g, startDate, id) ==
    IF g.type = "absent" THEN "group_ids is required"
    ELSE IF g.type = "str"
            /\ \E i \in 1..Len(Split(g.v)) : ~IsInt(Split(g.v)[i])
    THEN "raises ValueError"
    ELSE IF g.type \notin {"str", "list"} THEN "group_ids type not understood"
    ELSE IF startDate = "invalid" THEN "raises ParserError"
    ELSE IF id = "absent" THEN "tnsrobotID is required"
    ELSE IF ~RobotFound(rb, id) THEN "No TNSRobot available"
    ELSE IF AltdataError(rb) # "none" THEN AltdataError(rb)
    ELSE "accept"

\* lines 631-634: group_ids as passed to the task
BulkGroupIds(g) ==
    IF g.type = "str"
    THEN [i \in 1..Len(Split(g.v)) |-> IntOf(Split(g.v)[i])]
    ELSE g.v

BulkRequests ==
    [g : GroupIdArgs, sd : StartDateArgs, id : RobotArgs,
     inc : BulkIncludeArgs]

BulkPost(requests) ==
    \E rq \in requests :
        LET c == BulkPostCheck(robot, rq.g, rq.sd, rq.id) IN
        /\ IF c = "accept"
           THEN /\ Submit(Task("bulk", "-", rq.inc[1], rq.inc[2],
                               BulkGroupIds(rq.g)))
                /\ out' = Resp("bulk", "success")
           ELSE /\ out' = Resp("bulk", c)
                /\ UNCHANGED << queue, accepted >>
        /\ UNCHANGED << db, photometry, robot, sess, run >>

(***************************************************************************)
(* ObjTNSHandler.get and ObjTNSHandler.post                                *)
(***************************************************************************)
\* a query argument: absent, or the string given
IncludeArgs == {<< "absent", "absent" >>, << "true", "true" >>,
                << "false", "absent" >>}

\* get_query_argument(name, False) as include_photometry / include_spectra
\* are used: a non-empty string is true
Truthy(arg) == arg # "absent"

\* a check that does not look at the credentials of the robot
ObjGetCheckNoCredentials(d, rb, o, id) ==
    IF id = "absent" THEN "tnsrobotID is required"
    ELSE IF ~d[o].exists THEN "No object available"
    ELSE IF ~RobotFound(rb, id) THEN "No TNSRobot available"
    ELSE "accept"

ObjGetCheck(d, rb, o, id) ==
    IF id = "absent" THEN "tnsrobotID is required"
    ELSE IF ~d[o].exists THEN "No object available"
    ELSE IF ~RobotFound(rb, id) THEN "No TNSRobot available"
    ELSE IF AltdataError(rb) # "none" THEN AltdataError(rb)
    ELSE "accept"

GetRequests == [obj : ObjIds, id : RobotArgs, inc : IncludeArgs]

ObjGet(requests) ==
    \E rq \in requests :
        LET c == ObjGetCheck(db, robot, rq.obj, rq.id) IN
        /\ IF c = "accept"
           THEN /\ Submit(Task("retrieval", rq.obj, Truthy(rq.inc[1]),
                               Truthy(rq.inc[2]), << >>))
                /\ out' = Resp("get", "success")
           ELSE /\ out' = Resp("get", c)
                /\ UNCHANGED << queue, accepted >>
        /\ UNCHANGED << db, photometry, robot, sess, run >>

\* reporters: absent or '', a non-empty string, a value that is no string
ReportersArgs == {"empty", "str", "other"}

\* archival and archivalComment
ArchivalArgs == {<< FALSE, "" >>, << TRUE, "" >>, << TRUE, "text" >>}

ObjPostCheck(d, rb, o, id, reporters, arch) ==
    IF id = "absent" THEN "tnsrobotID is required"
    ELSE IF reporters # "str"
    THEN "reporters is required and must be a non-empty string"
    ELSE IF ~d[o].exists THEN "No object available"
    ELSE IF ~RobotFound(rb, id) THEN "No TNSRobot available"
    ELSE IF arch[1] /\ arch[2] = ""
    THEN "archival_comment is required"
    ELSE IF AltdataError(rb) # "none" THEN AltdataError(rb)
    ELSE "accept"

PostRequests ==
    [obj : ObjIds, id : RobotArgs, reporters : ReportersArgs,
     arch : ArchivalArgs]

ObjPost(requests) ==
    \E rq \in requests :
        LET c == ObjPostCheck(db, robot, rq.obj, rq.id, rq.reporters, rq.arch)
        IN
        /\ IF c = "accept"
           THEN /\ Submit(Task("post_tns", rq.obj, FALSE, FALSE, << >>))
                /\ out' = Resp("post", "success")
           ELSE /\ out' = Resp("post", c)
                /\ UNCHANGED << queue, accepted >>
        /\ UNCHANGED << db, photometry, robot, sess, run >>

(***************************************************************************)
(* SpectrumTNSHandler.post                                                 *)
(***************************************************************************)
\* the Spectrum row of spectrum_id: whether it exists, whether the redshift
\* of its object is truthy, its altdata (None, with or without EXPTIME)
SpectrumRows ==
    {[exists |-> FALSE, redshift |-> FALSE, header |-> "none"]}
    \cup [exists : {TRUE}, redshift : BOOLEAN,
          header : {"none", "exptime", "noexptime"}]

\* line 964: the spectrum types, in the order of their TNS ids
SpecTypes == << "object", "host", "sky", "arcs", "synthetic" >>

\* spectrumType of the request body; '' when absent
SpectrumTypeArgs == {"", "object", "host", "sky", "arcs", "synthetic", "other"}

IsSpecType(x) == \E i \in 1..Len(SpecTypes) : SpecTypes[i] = x

\* list.index(x), the index counted from 0
SpecTypeIndexFromZero(x) ==
    CHOOSE i \in 0..(Len(SpecTypes) - 1) : SpecTypes[i + 1] = x

\* list.index(x) + 1
SpecTypeId(x) == CHOOSE i \in 1..Len(SpecTypes) : SpecTypes[i] = x

\* the status TNS answers a request with; 0 when the request raises
PushAnswers == {200, 429, 500, 0}

SpectrumRequests ==
    [id : RobotArgs, sp : SpectrumRows, type : SpectrumTypeArgs,
     name : Names \cup {NoName}, upload : PushAnswers, report : PushAnswers]

\* what the handler answers, the TNS calls it made, the statuses of the
\* upload and report requests, the report it sent
PushResult(msg, calls, got, report) ==
    [NoResult EXCEPT !.outcome = msg, !.calls = calls, !.got = got,
                     !.report = report]

\* an upload that every answer but a server error lets through
UploadAcceptedUnlessServerError(status) == status < 500

\* line 1006: `if r.status_code != 200: return self.error(...)`
UploadAccepted(status) == status = 200

\* lines 908-1048
SpectrumPush(rb, rq) ==
    LET named == << "get_IAUname" >>
        uploaded == << "get_IAUname", "file-upload" >>
        reported == << "get_IAUname", "file-upload", "bulk-report" >>
        report == [sent |-> TRUE, spectypeid |-> SpecTypeId(rq.type),
                   redshift |-> rq.sp.redshift]
    IN
    IF rq.id = "absent"
    THEN PushResult("tnsrobotID is required", << >>, << >>, NoReport)
    ELSE IF ~RobotFound(rb, rq.id)
    THEN PushResult("No TNSRobot available", << >>, << >>, NoReport)
    ELSE IF AltdataFalsy(rb.altdata)
    THEN PushResult("Missing TNS information.", << >>, << >>, NoReport)
    ELSE IF ~rq.sp.exists
    THEN PushResult("No spectrum", << >>, << >>, NoReport)
    ELSE IF ~HasApiKey(rb.altdata)
    THEN PushResult("raises KeyError", << >>, << >>, NoReport)
    ELSE IF rq.name = NoName
    THEN PushResult("TNS name missing", named, << >>, NoReport)
    ELSE IF ~IsSpecType(rq.type)
    THEN PushResult("raises ValueError", named, << >>, NoReport)
    ELSE IF rq.sp.header = "noexptime"
    THEN PushResult("raises KeyError", named, << >>, NoReport)
    ELSE IF rq.upload = 0
    THEN PushResult("raises RequestException", uploaded, << 0 >>, NoReport)
    ELSE IF ~UploadAccepted(rq.upload)
    THEN PushResult("r.content", uploaded, << rq.upload >>, NoReport)
    ELSE IF ~rq.sp.redshift
    THEN PushResult("raises UnboundLocalError", uploaded, << rq.upload >>,
                    NoReport)
    ELSE IF rq.report = 0
    THEN PushResult("raises RequestException", reported,
                    << rq.upload, 0 >>, report)
    ELSE IF rq.report = 200
    THEN PushResult("success", reported, << rq.upload, 200 >>, report)
    ELSE PushResult("r.content", reported, << rq.upload, rq.report >>, report)

SpectrumPost(requests) ==
    \E rq \in requests :
        LET r == SpectrumPush(robot, rq) IN
        /\ out' = [Resp("spectrum", r.outcome) EXCEPT
                      !.res = [r EXCEPT !.spectrumType = rq.type,
                                        !.name = IF r.calls = << >>
                                                 THEN Unset ELSE rq.name]]
        /\ UNCHANGED << db, photometry, robot, sess, queue, run, accepted >>

(***************************************************************************)
(* TNSRobotHandler.put and TNSRobotHandler.delete                          *)
(* A request body names, for each key, "absent" or the value given.  A     *)
(* group id is the string of its digits.                                   *)
(***************************************************************************)
NoRobot ==
    [exists |-> FALSE, altdata |-> "unset", auto_report_group_ids |-> << >>,
     auto_reporters |-> "none"]

PutBody(bot_id, bot_name, source_group_id, groups, reporters, altdata) ==
    [bot_id |-> bot_id, bot_name |-> bot_name,
     source_group_id |-> source_group_id, groups |-> groups,
     reporters |-> reporters, altdata |-> altdata]

AbsentGroups == [type |-> "absent", v |-> << >>]

\* data['auto_report_group_ids'] after lines 235-248
PutGroups(g) == IF g.type = "str" THEN Split(g.v) ELSE g.v

\* data.get('auto_reporters', '') after line 257
PutReporters(body) ==
    IF body.groups.type \in {"str", "list"} /\ Len(PutGroups(body.groups)) = 0
    THEN ""
    ELSE IF body.reporters = "absent" THEN "" ELSE body.reporters

\* whether the body, after line 257, holds the key auto_reporters
PutHasReporters(body) ==
    \/ body.reporters # "absent"
    \/ body.groups.type \in {"str", "list"} /\ Len(PutGroups(body.groups)) = 0

\* lines 210-276: "accept" or the error returned
PutCheck(rb, id, body) ==
    IF body.bot_id = "bad" THEN "TNS bot ID must be an integer"
    ELSE IF body.bot_name = "bad" THEN "TNS bot name must be a non-empty string"
    ELSE IF body.source_group_id = "bad"
    THEN "TNS source group ID must be an integer"
    ELSE IF body.groups.type = "other"
    THEN "TNS auto report group IDs must be a list"
    ELSE IF body.groups.type \in {"str", "list"}
            /\ \E i \in 1..Len(PutGroups(body.groups)) :
                   ~IsInt(PutGroups(body.groups)[i])
    THEN "TNS auto report group IDs must be integers"
    ELSE IF ~RobotFound(rb, id) THEN "No TNS robot"
    ELSE IF /\ body.groups.type \in {"str", "list"}
            /\ Len(PutGroups(body.groups)) > 0
            /\ PutReporters(body) \in {"none", ""}
            /\ rb.auto_reporters \in {"none", ""}
    THEN "TNS auto reporters must be a non-empty string"
    ELSE "accept"

\* lines 278-279: setattr(tnsrobot, key, val) for every key of the body
PutApply(rb, body) ==
    [exists |-> TRUE,
     altdata |-> IF body.altdata = "absent" THEN rb.altdata ELSE body.altdata,
     auto_report_group_ids |->
        IF body.groups.type = "absent" THEN rb.auto_report_group_ids
        ELSE PutGroups(body.groups),
     auto_reporters |->
        IF PutHasReporters(body) THEN PutReporters(body)
        ELSE rb.auto_reporters]

\* the bodies of the update requests
PutBodies ==
    {PutBody("absent", "absent", "absent", AbsentGroups, "absent", alt) :
        alt \in AltKinds}

RobotPut(bodies) ==
    \E id \in RobotArgs \ {"absent"}, body \in bodies :
        LET c == PutCheck(robot, id, body) IN
        /\ IF c = "accept"
           THEN /\ robot' = PutApply(robot, body)
                /\ out' = Resp("put", "success")
           ELSE /\ out' = Resp("put", c)
                /\ UNCHANGED robot
        /\ UNCHANGED << db, photometry, sess, queue, run, accepted >>

\* lines 309-328
RobotDelete ==
    \E id \in RobotArgs \ {"absent"} :
        /\ IF RobotFound(robot, id)
           THEN /\ robot' = NoRobot
                /\ out' = Resp("delete", "success")
           ELSE /\ out' = Resp("delete", "No TNS robot")
                /\ UNCHANGED robot
        /\ UNCHANGED << db, photometry, sess, queue, run, accepted >>

(***************************************************************************)
(* The system.                                                             *)
(***************************************************************************)
Init ==
    /\ db = [o \in ObjIds |->
               [exists |-> (o = "a"), tns_name |-> NoName,
                tns_info |-> NoInfo, spectra |-> {}]]
    /\ photometry = [o \in ObjIds |-> {}]
    /\ robot = [exists |-> TRUE, altdata |-> "key",
                auto_report_group_ids |-> << >>, auto_reporters |-> "none"]
    /\ sess = [t \in Threads |-> NoSession]
    /\ queue = << >>
    /\ run = [t \in Threads |-> IdleRun]
    /\ accepted = 0
    /\ out = Resp("none", "none")

(***************************************************************************)
(* Spec: the retrieval pipeline.  Clients send well-formed requests, TNS   *)
(* answers in every way.  A request a handler rejects changes nothing but  *)
(* the response.                                                           *)
(***************************************************************************)
WellFormedBulk ==
    {rq \in BulkRequests : rq.g.type = "list" /\ rq.sd = "absent" /\ rq.id = "1"}

WellFormedGet ==
    {rq \in GetRequests : rq.id = "1" /\ rq.inc[1] = rq.inc[2]}

\* TNS answers the first request of a call, or rate-limits the call throughout
PipelineInputs == RetrInputs({0, MaxRateLimited})

Next ==
    \/ BulkPost(WellFormedBulk)
    \/ ObjGet(WellFormedGet)
    \/ \E t \in Threads : RunRetrieval(t, PipelineInputs)
    \/ \E t \in Threads : BulkBegin(t, BulkInputs)
    \/ \E t \in Threads : BulkSourceFails(t)
    \/ \E t \in Threads : BulkSource(t, PipelineInputs)
    \/ \E t \in Threads : BulkEnd(t)

Spec == Init /\ [][Next]_vars

(***************************************************************************)
(* SpecFetch: detached retrievals of one object against every number of    *)
(* consecutive 429 answers, from none to more than the retries allowed.    *)
(***************************************************************************)
FetchInputs == RetrInputs(0..MaxRateLimited)

NextFetch ==
    \/ ObjGet(WellFormedGet)
    \/ \E t \in Threads : RunRetrieval(t, FetchInputs)

SpecFetch == Init /\ [][NextFetch]_vars

(***************************************************************************)
(* SpecAPI: every handler, while an administrator changes and deletes the  *)
(* robot.  A request differs from a well-formed one in at most one of its  *)
(* values; TNS answers the tasks at once.                                  *)
(***************************************************************************)
\* the requests of rqs that differ from `good` in at most one of `fields`
Near(rqs, good, fields) ==
    {rq \in rqs : Cardinality({f \in fields : rq[f] # good[f]}) <= 1}

ApiBulk ==
    Near(BulkRequests,
         [g |-> [type |-> "list", v |-> << 1 >>], sd |-> "valid", id |-> "1",
          inc |-> << TRUE, TRUE >>],
         {"g", "sd", "id", "inc"})

ApiPost ==
    Near(PostRequests,
         [obj |-> "a", id |-> "1", reporters |-> "str",
          arch |-> << FALSE, "" >>],
         {"obj", "id", "reporters", "arch"})

ApiSpectrum ==
    Near(SpectrumRequests,
         [id |-> "1",
          sp |-> [exists |-> TRUE, redshift |-> TRUE, header |-> "exptime"],
          type |-> "object", name |-> "2024abc", upload |-> 200,
          report |-> 200],
         {"id", "sp", "type", "name", "upload", "report"})

ApiInputs ==
    {RetrInput(FALSE, NoName, 0, 200, "empty")}
    \cup {RetrInput(FALSE, n, 0, 200, "r1") : n \in Names}

ApiBulkInputs ==
    {[userErr |-> FALSE, sources |-> ss] : ss \in {<< >>, << "a" >>, << "b" >>}}

NextAPI ==
    \/ RobotPut(PutBodies)
    \/ RobotDelete
    \/ BulkPost(ApiBulk)
    \/ ObjGet(GetRequests)
    \/ ObjPost(ApiPost)
    \/ SpectrumPost(ApiSpectrum)
    \/ \E t \in Threads : RunRetrieval(t, ApiInputs)
    \/ \E t \in Threads : RunPostTNS(t)
    \/ \E t \in Threads : BulkBegin(t, ApiBulkInputs)
    \/ \E t \in Threads : BulkSourceFails(t)
    \/ \E t \in Threads : BulkSource(t, ApiInputs)
    \/ \E t \in Threads : BulkEnd(t)

SpecAPI == Init /\ [][NextAPI]_vars

(***************************************************************************)
(* SpecTriggers: the three triggers, with the requests of SpecAPI, while   *)
(* an administrator changes and deletes the robot and TNS has nothing new: *)
(* no name for an object, no source since the start date.                  *)
(***************************************************************************)
QuietInputs == {RetrInput(FALSE, NoName, 0, 200, "empty")}

QuietBulkInputs == {[userErr |-> FALSE, sources |-> << >>]}

NextTriggers ==
    \/ RobotPut(PutBodies)
    \/ RobotDelete
    \/ BulkPost(ApiBulk)
    \/ ObjGet(GetRequests)
    \/ ObjPost(ApiPost)
    \/ \E t \in Threads : RunRetrieval(t, QuietInputs)
    \/ \E t \in Threads : RunPostTNS(t)
    \/ \E t \in Threads : BulkBegin(t, QuietBulkInputs)

SpecTriggers == Init /\ [][NextTriggers]_vars

(***************************************************************************)
(* SpecPush: the spectrum push with every request and every answer of      *)
(* TNS, while an administrator changes and deletes the robot.              *)
(***************************************************************************)
NextPush ==
    \/ RobotPut(PutBodies)
    \/ RobotDelete
    \/ SpectrumPost(SpectrumRequests)

SpecPush == Init /\ [][NextPush]_vars

(***************************************************************************)
(* SpecRobot: an administrator updates the robot, with every combination   *)
(* of group list and reporters in the body, and deletes it.                *)
(***************************************************************************)
\* auto_report_group_ids of a body: absent, lists, strings, another type
RobotGroupArgs ==
    {AbsentGroups,
     [type |-> "list", v |-> << >>],
     [type |-> "list", v |-> << << "1" >> >>],
     [type |-> "str", v |-> << "1", ",", "2" >>],
     [type |-> "str", v |-> << "x" >>],
     [type |-> "other", v |-> << >>]}

\* auto_reporters of a body: absent, null, '', a name
RobotReporterArgs == {"absent", "none", "", "A. Reporter"}

RobotBodies ==
    {PutBody(bot_id, "absent", "absent", g, r, alt) :
        bot_id \in {"absent", "bad"}, g \in RobotGroupArgs,
        r \in RobotReporterArgs, alt \in {"absent", "key", "empty"}}

NextRobot ==
    \/ RobotPut(RobotBodies)
    \/ RobotDelete

SpecRobot == Init /\ [][NextRobot]_vars

(***************************************************************************)
(* SpecLive: the detached tasks with the executor running them: a worker   *)
(* thread that can take the oldest task or go on with its bulk retrieval   *)
(* does so in the end.  TNS answers 429 any number of times; every call    *)
(* to it returns or times out, so every step of a task ends.               *)
(***************************************************************************)
LiveInputs ==
    {RetrInput(TRUE, NoName, 0, 200, "empty"),
     RetrInput(FALSE, NoName, 0, 200, "empty")}
    \cup {RetrInput(FALSE, n, 0, 0, "empty") : n \in Names}
    \cup {RetrInput(FALSE, n, k, 200, "empty") :
            n \in Names, k \in {0, MaxRateLimited}}

\* get_recent_TNS finds nothing, or an object and a new source
LiveBulkInputs ==
    {[userErr |-> u, sources |-> ss] :
        u \in BOOLEAN, ss \in {<< >>, << "a", "b" >>}}

\* the steps of worker thread t
Worker(t) ==
    \/ RunRetrieval(t, LiveInputs)
    \/ BulkBegin(t, LiveBulkInputs)
    \/ BulkSourceFails(t)
    \/ BulkSource(t, LiveInputs)
    \/ BulkEnd(t)

NextLive ==
    \/ BulkPost(WellFormedBulk)
    \/ ObjGet(WellFormedGet)
    \/ \E t \in Threads : Worker(t)

SpecLive ==
    Init /\ [][NextLive]_vars /\ \A t \in Threads : WF_vars(Worker(t))

(***************************************************************************)
(* Properties.                                                             *)
(***************************************************************************)
\* the steps of a bulk retrieval after which the task has ended
BulkEnded(o) ==
    o.op = "tns_bulk_retrieval" /\ o.msg \notin {"searched", "looping"}

SessionReleased(s) == ~s.open /\ ~s.registered /\ s.pending = NoSession.pending

\* C1: a bulk retrieval that ends with an exception raised while it loops
\* over the sources has committed nothing: no row of any source of the
\* batch has been written to the database.
C1_BulkCommitsOnce ==
    (out.op = "tns_bulk_retrieval"
     /\ out.msg \in {"source_error", "retrieval_raised"})
        => out.committed = {}

\* C2: a commit of a task never writes changes that another task, which
\* has finished, left uncommitted in the session.
C2_OwnSessionPerTask == ~out.res.leak

\* C3: after a detached tns_retrieval, which owns its session, the session
\* of its thread is closed and removed from the registry, whatever the
\* outcome.
C3_OwnedSessionReleased ==
    out.op = "tns_retrieval" => SessionReleased(sess[out.t])

\* C4: after a bulk retrieval has ended, at whichever step, the session of
\* its thread is closed and removed from the registry.
C4_BulkSessionReleased ==
    BulkEnded(out) => SessionReleased(sess[out.t])

\* the first n answers to the object-fetch requests are 429
AllAre429(g, n) == Len(g) >= n /\ \A i \in 1..n : g[i] = 429

\* C5: a detached tns_retrieval never sends more than the first object-fetch
\* request and 5 retries; when TNS answers 429 to every request, five times
\* or more, it sends exactly the 5 retries and ends with 'request rate
\* exceeded'; and it ends so only after 5 retries that followed 429 answers.
C5_FiveRetriesThenRateExceeded ==
    out.op = "tns_retrieval" =>
        LET g == out.res.got IN
        /\ Len(g) <= 6
        /\ (Len(g) >= 5 /\ AllAre429(g, Len(g)))
              => (Len(g) = 6 /\ out.msg = "rate_exceeded")
        /\ out.msg = "rate_exceeded" => (Len(g) = 6 /\ AllAre429(g, 5))

\* a retrieval that TNS rate-limited throughout: six requests, all 429
C5_Witness ==
    /\ out.op = "tns_retrieval"
    /\ out.msg = "rate_exceeded"
    /\ Len(out.res.got) = 6
    /\ AllAre429(out.res.got, 6)

\* C6: a detached tns_retrieval whose last object-fetch request, the first
\* or any of the 5 retries, was answered 200 does not end with 'request
\* rate exceeded'.
C6_SuccessWithinRetries ==
    (/\ out.op = "tns_retrieval"
     /\ out.res.got # << >>
     /\ out.res.got[Len(out.res.got)] = 200)
        => out.msg # "rate_exceeded"

\* the last request of a call is the n-th request to its endpoint
RequestsToLastEndpoint(calls) ==
    Cardinality({i \in 1..Len(calls) : calls[i] = calls[Len(calls)]})

\* C7: a spectrum push does not end on a 429 answer to its upload or report
\* request unless it has sent that request and 5 retries of it.
C7_PushRetriesOn429 ==
    (/\ out.op = "spectrum"
     /\ out.res.got # << >>
     /\ out.res.got[Len(out.res.got)] = 429)
        => RequestsToLastEndpoint(out.res.calls) = count_limit + 1

\* what a handler answers, or a task logs, for credentials without API key
MissingKeyFailures ==
    {"Missing TNS information.", "Missing TNS API key.", "missing_info",
     "missing_key"}

\* the failures found before the credentials of the robot are read
EarlierFailures ==
    {"tnsrobotID is required", "No TNSRobot available", "No object available",
     "No spectrum", "group_ids is required", "group_ids type not understood",
     "raises ValueError", "raises ParserError",
     "reporters is required and must be a non-empty string",
     "archival_comment is required", "user_error", "no_object"}

\* the answer of a handler, or the step of a task, that reads the credentials
ReadsCredentials(o) ==
    \/ o.op \in {"bulk", "get", "post", "spectrum", "tns_retrieval"}
    \/ /\ o.op = "tns_bulk_retrieval"
       /\ o.msg \notin {"looping", "retrieval_raised", "source_error", "done",
                        "commit_error"}

\* C8: while the credentials of the robot lack an API key, bulk retrieval,
\* single-object retrieval, object push and spectrum push, unless they
\* fail earlier, fail with the missing-key condition, and call TNS never.
C8_MissingKeyFailsFirst ==
    (robot.exists /\ ~HasApiKey(robot.altdata) /\ ReadsCredentials(out))
        => /\ out.res.calls = << >>
           /\ out.msg \in MissingKeyFailures \cup EarlierFailures

\* C9: a tns_retrieval for which get_IAUname returns no name ends with
\* 'not yet posted to TNS', sends no object-fetch request, and changes the
\* TNS name and the TNS info of no object, in the database or in the
\* session.
C9_NotPostedChangesNothing ==
    [][(/\ out'.op \in {"tns_retrieval", "tns_bulk_retrieval"}
        /\ out'.res.outcome = "not_posted")
         => /\ out'.res.got = << >>
            /\ out'.res.calls = << "get_IAUname" >>
            /\ \A o \in ObjIds :
                 /\ db'[o].tns_name = db[o].tns_name
                 /\ db'[o].tns_info = db[o].tns_info
                 /\ sess'[out'.t].pending[o].name
                        \in {sess[out'.t].pending[o].name, Unset}
                 /\ sess'[out'.t].pending[o].info
                        \in {sess[out'.t].pending[o].info, Unset}]_vars

\* a retrieval ended 'not yet posted' for an object that has a TNS name
C9_Witness ==
    /\ out.op = "tns_retrieval"
    /\ out.msg = "not_posted"
    /\ db[out.res.obj].tns_name # NoName

\* the database after two detached retrievals of object o in succession,
\* on worker threads t1 and t2, with the same parameters and answers
TwoRuns(t1, t2, o, inc, in) ==
    LET p == [obj |-> o, incPhot |-> inc, incSpec |-> inc]
        r1 == Retrieve(db, photometry, robot, sess[t1], FALSE, p, in)
        sess1 == [sess EXCEPT ![t1] = MarkStale(r1.s)]
        r2 == Retrieve(r1.db, r1.photometry, robot, sess1[t2], FALSE, p, in)
    IN  [first |-> r1.db[o], second |-> r2.db[o]]

\* C10: after two detached retrievals of an object in succession with the
\* same answers, the TNS name and the TNS info of the object are what they
\* were after the first.
C10_Idempotent ==
    \A t1 \in Threads, t2 \in Threads, o \in ObjIds, inc \in BOOLEAN,
       in \in PipelineInputs :
        (~Busy(t1) /\ ~Busy(t2) /\ db[o].exists) =>
            LET two == TwoRuns(t1, t2, o, inc, in) IN
            /\ two.second.tns_name = two.first.tns_name
            /\ two.second.tns_info = two.first.tns_info

\* whether the task that made the tns_retrieval of this step asked for
\* photometry
StepIncPhot ==
    IF out'.op = "tns_retrieval" THEN Head(queue).incPhot
    ELSE run[out'.t].incPhot

\* the records of a reply that can be translated, and those that cannot
GoodRecords(recs) ==
    {recs[i].id : i \in {j \in DOMAIN recs : recs[j].ok}}

BadRecords(recs) == {i \in DOMAIN recs : recs[i].ok = FALSE}

\* C11: a tns_retrieval that asked for photometry and got a reply with
\* photometry records inserts every record that can be translated, counts
\* one failure for each record that cannot, and, unless the spectra stop
\* it, ends as retrieved: it commits the object and pushes the refresh.
C11_PhotometryFailuresSkipped ==
    [][(/\ out'.op \in {"tns_retrieval", "tns_bulk_retrieval"}
        /\ out'.res.reply # Unset
        /\ ReplyOf(out'.res.reply).hasPhot
        /\ StepIncPhot)
         => LET recs == ReplyOf(out'.res.reply).phot
                o == out'.res.obj
            IN  /\ photometry'[o] = photometry[o] \cup GoodRecords(recs)
                /\ out'.res.photFailed = Cardinality(BadRecords(recs))
                /\ out'.res.outcome # "spectrum_error"
                     => /\ out'.res.outcome = "retrieved"
                        /\ out'.res.pushed
                        /\ o \in out'.res.committed]_vars

\* a retrieval whose reply held three photometry records, the second
\* malformed: the first and the third are inserted, one failure is counted
C11_Witness ==
    /\ out.op = "tns_retrieval"
    /\ out.res.reply = "r1"
    /\ out.res.photFailed = 1
    /\ photometry[out.res.obj] = {"p1", "p3"}
    /\ out.res.outcome = "retrieved"
    /\ out.res.pushed

\* what a handler that raises, instead of answering, is recorded with
Raised ==
    {"raises ValueError", "raises ParserError", "raises KeyError",
     "raises UnboundLocalError", "raises RequestException"}

\* groupIds values that are neither a list nor a string of integers
MalformedGroupIds ==
    {[type |-> "str", v |-> << "x" >>],
     [type |-> "str", v |-> << "1", ",", "x" >>],
     [type |-> "other", v |-> << >>]}

\* C12: the bulk retrieval trigger answers a request whose groupIds is
\* malformed with an error of its own, and submits no task.
C12_MalformedGroupIdsRejected ==
    [][\A rq \in BulkRequests :
          (rq.g \in MalformedGroupIds /\ BulkPost({rq}))
            => /\ out'.msg \notin Raised \cup {"success"}
               /\ queue' = queue]_vars

\* the step of a trigger: it changes nothing but the queue; it answers
\* success only when the checks `ok` passed and the robot asked for exists
\* and holds an API key, and then it has appended one task of the kind,
\* which has not started; otherwise it has appended none
Acknowledged(id, kind, obj, ok) ==
    /\ UNCHANGED << db, photometry, robot, sess, run >>
    /\ IF out'.msg = "success"
       THEN /\ ok
            /\ id = "1"
            /\ robot.exists
            /\ robot.altdata = "key"
            /\ Len(queue') = Len(queue) + 1
            /\ SubSeq(queue', 1, Len(queue)) = queue
            /\ queue'[Len(queue')].kind = kind
            /\ queue'[Len(queue')].obj = obj
            /\ accepted' = accepted + 1
       ELSE /\ queue' = queue
            /\ accepted' = accepted

\* C13: the bulk-retrieval, single-object-retrieval and object-push
\* triggers submit a task only after every check has passed, one task for
\* a request they accept and none for one they reject, and answer success
\* while the task is still queued.
C13_TaskAfterValidation ==
    [][/\ out'.op = "bulk" =>
            \A rq \in ApiBulk :
                BulkPost({rq}) =>
                    Acknowledged(rq.id, "bulk", "-",
                                 rq.g.type \in {"str", "list"}
                                 /\ rq.g \notin MalformedGroupIds
                                 /\ rq.sd # "invalid")
       /\ out'.op = "get" =>
            \A rq \in GetRequests :
                ObjGet({rq}) =>
                    Acknowledged(rq.id, "retrieval", rq.obj, db[rq.obj].exists)
       /\ out'.op = "post" =>
            \A rq \in ApiPost :
                ObjPost({rq}) =>
                    Acknowledged(rq.id, "post_tns", rq.obj,
                                 db[rq.obj].exists /\ rq.reporters = "str"
                                 /\ rq.arch # << TRUE, "" >>)]_vars

\* a trigger has answered success and its task waits in the queue
C13_Witness ==
    /\ out.op \in {"bulk", "get", "post"}
    /\ out.msg = "success"
    /\ queue # << >>
    /\ queue[Len(queue)].kind
         = (CASE out.op = "bulk" -> "bulk" [] out.op = "get" -> "retrieval"
              [] OTHER -> "post_tns")

\* C14: a spectrum push whose spectrumType is none of object, host, sky,
\* arcs, synthetic is answered with an error of the handler, and no file
\* is uploaded to TNS.
C14_UnknownTypeRejected ==
    (/\ out.op = "spectrum"
     /\ out.res.spectrumType
          \notin {"object", "host", "sky", "arcs", "synthetic"})
        => /\ out.msg \notin Raised \cup {"success"}
           /\ \A i \in DOMAIN out.res.calls : out.res.calls[i] # "file-upload"

\* the classification index of a spectrum type
TypeIndex(x) ==
    CASE x = "object" -> 1 [] x = "host" -> 2 [] x = "sky" -> 3
      [] x = "arcs" -> 4 [] x = "synthetic" -> 5 [] OTHER -> 0

\* C15: the spectypeid of a classification report sent by a spectrum push
\* is the index of the spectrumType of the request: object 1, host 2,
\* sky 3, arcs 4, synthetic 5.
C15_TypeIndexSent ==
    (out.op = "spectrum" /\ out.res.report.sent)
        => /\ out.res.report.spectypeid = TypeIndex(out.res.spectrumType)
           /\ out.res.report.spectypeid \in 1..5

\* a report was sent for a synthetic spectrum, with spectypeid 5
C15_Witness ==
    /\ out.op = "spectrum"
    /\ out.msg = "success"
    /\ out.res.report.sent
    /\ out.res.spectrumType = "synthetic"
    /\ out.res.report.spectypeid = 5

\* C16: a robot whose list of automatic-report groups is not empty has a
\* reporters string that is not empty.
C16_ReportersWithGroups ==
    (robot.exists /\ Len(robot.auto_report_group_ids) > 0)
        => robot.auto_reporters \notin {"none", ""}

\* C17: after a detached tns_retrieval that resolved a TNS name and whose
\* object fetch failed (a status other than 200, the rate limit, an
\* exception of the request), the object has a TNS name in the database.
C17_NamePersistedOnFailure ==
    (/\ out.op = "tns_retrieval"
     /\ out.msg \in {"fetch_failed", "rate_exceeded", "transport_error"})
        => db[out.res.obj].tns_name \in Names

\* C18: a tns_retrieval pushes the refresh notification only when it has
\* retrieved the object; after a fetch answered with a status other than
\* 200 it pushes nothing.
C18_PushOnlyOnSuccess ==
    (/\ out.op \in {"tns_retrieval", "tns_bulk_retrieval"}
     /\ out.res.pushed)
        => out.res.outcome = "retrieved"

\* C19: when a bulk retrieval is done, every source that had no local
\* object, that it therefore created before retrieving it, and for which
\* get_IAUname returned a name, is an object with a TNS name.
C19_NewSourceNamed ==
    [][\A t \in Threads :
          (run[t].pc = "loop" /\ run'[t].pc = "idle" /\ out'.msg = "done")
            => \A o \in run[t].newNamed :
                   db'[o].exists /\ db'[o].tns_name \in Names]_vars

\* C20: after each inner tns_retrieval of a bulk retrieval has returned, the
\* session that the bulk task shares with it is still open and in the
\* registry of the thread: only tns_bulk_retrieval closes and removes it.
C20_SharedSessionKeptOpen ==
    (out.op = "tns_bulk_retrieval" /\ out.msg = "looping")
        => (sess[out.t].open /\ sess[out.t].registered)

\* C21: no tns_retrieval, detached or called by a bulk retrieval, ends with
\* an exception that reaches its caller; in particular no bulk retrieval is
\* ended by an exception of the retrieval of one of its sources.
C21_RetrievalNeverRaises ==
    out.op \in {"tns_retrieval", "tns_bulk_retrieval"} => ~out.res.raised

\* whether the task that made the tns_retrieval of this step asked for
\* spectra
StepIncSpec ==
    IF out'.op = "tns_retrieval" THEN Head(queue).incSpec
    ELSE run[out'.t].incSpec

\* the spectrum records of a reply that read_tns_spectrum translates, and
\* those on which it raises
TranslatedSpectra(recs) ==
    {recs[i].id : i \in {j \in DOMAIN recs : recs[j].kind # "bad"}}

FailingSpectra(recs) == {i \in DOMAIN recs : recs[i].kind = "bad"}

\* C22: a tns_retrieval that asked for spectra and got a reply with spectrum
\* records, all of which post_spectrum accepts once translated, stores every
\* record that can be translated and logs a summary that counts one failure
\* for each record that cannot.
C22_SpectrumFailuresCounted ==
    [][(/\ out'.op \in {"tns_retrieval", "tns_bulk_retrieval"}
        /\ out'.res.reply # Unset
        /\ ReplyOf(out'.res.reply).hasSpec
        /\ \A i \in DOMAIN ReplyOf(out'.res.reply).spec :
               ReplyOf(out'.res.reply).spec[i].kind # "reject"
        /\ StepIncSpec)
         => LET recs == ReplyOf(out'.res.reply).spec
                o == out'.res.obj
            IN  /\ db'[o].spectra = db[o].spectra \cup TranslatedSpectra(recs)
                /\ out'.res.specFailed = Cardinality(FailingSpectra(recs))]_vars

\* whether the spectrum push made the TNS call c
PushCalled(c) == \E i \in DOMAIN out.res.calls : out.res.calls[i] = c

\* a status TNS answered with that is not 200 (0 stands for no answer)
Refusal(status) == status \notin {0, 200}

\* C23: a spectrum push uploads the file only after get_IAUname gave a name
\* and answers an error without uploading when it gave none; it submits the
\* report only after the upload was answered 200 and answers the raw
\* response without submitting it after any other answer; it answers
\* success when the report is answered 200 and the raw response after any
\* other answer.
C23_PushStepsInOrder ==
    out.op = "spectrum" =>
        LET r == out.res IN
        /\ PushCalled("file-upload") => r.name \in Names
        /\ r.name = NoName
             => /\ out.msg = "TNS name missing"
                /\ r.calls = << "get_IAUname" >>
        /\ PushCalled("bulk-report") => r.got[1] = 200
        /\ (Len(r.got) >= 1 /\ Refusal(r.got[1]))
             => /\ out.msg = "r.content"
                /\ r.calls = << "get_IAUname", "file-upload" >>
                /\ ~r.report.sent
        /\ (Len(r.got) = 2 /\ r.got[2] = 200) => out.msg = "success"
        /\ (Len(r.got) = 2 /\ Refusal(r.got[2])) => out.msg = "r.content"
        /\ r.report.sent <=> PushCalled("bulk-report")

\* a push whose upload was answered 200 and whose report was refused
C23_Witness ==
    /\ out.op = "spectrum"
    /\ out.res.calls = << "get_IAUname", "file-upload", "bulk-report" >>
    /\ out.res.got = << 200, 500 >>
    /\ out.msg = "r.content"

\* the pushes of a spectrum whose object has no redshift, of a valid type,
\* for which TNS gives a name and answers 200 to the upload and the report
PushesWithoutRedshift ==
    {rq \in SpectrumRequests :
        /\ rq.id = "1"
        /\ rq.sp.exists /\ ~rq.sp.redshift /\ rq.sp.header # "noexptime"
        /\ IsSpecType(rq.type)
        /\ rq.name \in Names
        /\ rq.upload = 200 /\ rq.report = 200}

\* C24: the push of a spectrum whose object has no redshift, with a robot
\* that holds an API key and TNS answering 200 to the upload and to the
\* report, submits a report without a redshift and answers success.
C24_PushWithoutRedshift ==
    [][\A rq \in PushesWithoutRedshift :
          (/\ RobotFound(robot, rq.id)
           /\ HasApiKey(robot.altdata)
           /\ SpectrumPost({rq}))
            => /\ out'.msg = "success"
               /\ out'.res.report.sent
               /\ ~out'.res.report.redshift]_vars

\* the last status TNS answered to the object-fetch requests of this step
LastAnswer == out'.res.got[Len(out'.res.got)]

\* C25: a detached tns_retrieval whose last object-fetch request is answered
\* 200 with an empty reply ends as retrieved without raising: it inserts no
\* photometry and no spectrum, commits the object and pushes the refresh.
C25_EmptyReplyIsSuccess ==
    [][\A t \in Threads : \A k \in 0..MaxRateLimited : \A n \in Names :
          (/\ out'.op = "tns_retrieval"
           /\ out'.res.got # << >>
           /\ LastAnswer = 200
           /\ RunRetrieval(t, {RetrInput(FALSE, n, k, 200, "empty")}))
            => LET o == out'.res.obj IN
               /\ out'.res.outcome = "retrieved"
               /\ ~out'.res.raised
               /\ photometry' = photometry
               /\ db'[o].spectra = db[o].spectra
               /\ o \in out'.res.committed
               /\ out'.res.pushed]_vars

\* a query argument that is absent or given as false
NotAsked(arg) == arg \in {"absent", "false"}

\* C26: the retrieval that a GET submits with includePhotometry absent or
\* false is one without photometry, and likewise for includeSpectra; and a
\* retrieval without photometry asks TNS for none and inserts none, and
\* likewise for spectra.
C26_NothingUnlessAsked ==
    [][/\ \A rq \in GetRequests :
            (out'.op = "get" /\ out'.msg = "success" /\ ObjGet({rq}))
              => LET task == queue'[Len(queue')] IN
                 /\ NotAsked(rq.inc[1]) => ~task.incPhot
                 /\ NotAsked(rq.inc[2]) => ~task.incSpec
       /\ out'.op = "tns_retrieval"
            => LET task == Head(queue)
                   o == task.obj
               IN  /\ ~task.incPhot
                        => /\ FetchData(task).photometry = "0"
                           /\ photometry' = photometry
                   /\ ~task.incSpec
                        => /\ FetchData(task).spectra = "0"
                           /\ db'[o].spectra = db[o].spectra]_vars

\* the source a step of the loop of a bulk retrieval on thread t is about,
\* and whether the step is one
LoopStep(t) == run[t].pc = "loop" /\ run[t].rest # << >> /\ out'.t = t

\* C27: no tns_retrieval sends more than 6 object-fetch requests; each step
\* of the loop of a bulk retrieval either retrieves the first of the sources
\* left and leaves the others to do, or ends the task with a failure; and a
\* bulk retrieval that loops over its sources ends, as every task in the
\* queue is taken in the end.
C27_TasksTerminate ==
    /\ [](out.op \in {"tns_retrieval", "tns_bulk_retrieval"}
            => Len(out.res.got) <= 6)
    /\ [][\A t \in Threads :
            LoopStep(t)
              => \/ /\ out'.msg = "looping"
                    /\ out'.res.obj = Head(run[t].rest)
                    /\ run'[t].pc = "loop"
                    /\ run'[t].rest = Tail(run[t].rest)
                 \/ /\ out'.msg \in {"source_error", "retrieval_raised"}
                    /\ run'[t].pc = "idle"]_vars
    /\ \A t \in Threads : Busy(t) ~> ~Busy(t)
    /\ (queue # << >>) ~> (queue = << >>)

\* a bulk retrieval that has gone through the last of its sources, with a
\* retrieval that sent the first request and five retries
C27_Witness ==
    /\ out.op = "tns_bulk_retrieval"
    /\ out.msg = "looping"
    /\ run[out.t].pc = "loop"
    /\ run[out.t].rest = << >>
    /\ Len(out.res.got) = 6

====
